---- MODULE Spec2Model ----
(***************************************************************************)
(* A model of nse_downloader.py: the bhavcopy schema normalizer            *)
(* (standardize_bhavcopy and its helpers), the watchlist filter, the       *)
(* per-year grouping of save_excel_by_year and the main date loop.         *)
(*                                                                         *)
(* Column labels are TLA+ strings; Spelling gives the characters of every  *)
(* label the model uses, so that _norm, str.lower and the substring tests  *)
(* are computed character by character as the code computes them.          *)
(***************************************************************************)
EXTENDS Integers, Sequences, FiniteSets, TLC

\* ------------------------------------------------------------------ bounds
\* Most columns of a raw table drawn as input of the normalizer.
MaxCols == 3
\* Most rows of a raw table drawn as input of the normalizer.
MaxRows == 1

\* --------------------------------------------------------- small helpers
Range(f) == { f[i] : i \in DOMAIN f }
Min(S) == CHOOSE x \in S : \A y \in S : x <= y
Max(S) == CHOOSE x \in S : \A y \in S : y <= x
Reverse(s) == [ i \in 1..Len(s) |-> s[Len(s) + 1 - i] ]

\* ----------------------------------------------------------------- strings
\* The characters of each label, alias and unit hint.
Spelling ==
    "SYMBOL" :> <<"S","Y","M","B","O","L">>
 @@ "TOT_TRD_QTY" :> <<"T","O","T","_","T","R","D","_","Q","T","Y">>
 @@ "Volume in 000s" :> <<"V","o","l","u","m","e"," ","i","n"," ","0","0","0","s">>
 @@ "TURNOVER_LACS" :> <<"T","U","R","N","O","V","E","R","_","L","A","C","S">>
 @@ "TOTTRDVAL" :> <<"T","O","T","T","R","D","V","A","L">>
 @@ "Turnover (Rs. Cr)" :> <<"T","u","r","n","o","v","e","r"," ","(","R","s","."," ","C","r",")">>
 @@ "DELIV_QTY" :> <<"D","E","L","I","V","_","Q","T","Y">>
 @@ "Deliverable Volume" :> <<"D","e","l","i","v","e","r","a","b","l","e"," ","V","o","l","u","m","e">>
 @@ "PREVCLOSE" :> <<"P","R","E","V","C","L","O","S","E">>
 @@ "DIAG" :> <<"D","I","A","G">>
 @@ "Date" :> <<"D","a","t","e">>
 @@ "Symbol" :> <<"S","y","m","b","o","l">>
 @@ "Series" :> <<"S","e","r","i","e","s">>
 @@ "Prev Close" :> <<"P","r","e","v"," ","C","l","o","s","e">>
 @@ "Open" :> <<"O","p","e","n">>
 @@ "High" :> <<"H","i","g","h">>
 @@ "Low" :> <<"L","o","w">>
 @@ "Last" :> <<"L","a","s","t">>
 @@ "Close" :> <<"C","l","o","s","e">>
 @@ "VWAP" :> <<"V","W","A","P">>
 @@ "Volume" :> <<"V","o","l","u","m","e">>
 @@ "Turnover" :> <<"T","u","r","n","o","v","e","r">>
 @@ "Trades" :> <<"T","r","a","d","e","s">>
 @@ "Deliverable %" :> <<"D","e","l","i","v","e","r","a","b","l","e"," ","%">>
 @@ "ISIN" :> <<"I","S","I","N">>
 @@ "TIMESTAMP" :> <<"T","I","M","E","S","T","A","M","P">>
 @@ "Unnamed: 13" :> <<"U","n","n","a","m","e","d",":"," ","1","3">>
 @@ "Unnamed" :> <<"U","n","n","a","m","e","d">>
 @@ "INFY" :> <<"I","N","F","Y">>
 @@ "ITC" :> <<"I","T","C">>
 @@ "TCS" :> <<"T","C","S">>
 @@ "ZZZ" :> <<"Z","Z","Z">>
 @@ "000" :> <<"0","0","0">>
 @@ "thousand" :> <<"t","h","o","u","s","a","n","d">>
 @@ "lakh" :> <<"l","a","k","h">>
 @@ "lac" :> <<"l","a","c">>
 @@ "lacs" :> <<"l","a","c","s">>
 @@ "cr" :> <<"c","r">>
 @@ "crore" :> <<"c","r","o","r","e">>
 @@ "crores" :> <<"c","r","o","r","e","s">>
 @@ "symbol" :> <<"s","y","m","b","o","l">>
 @@ "series" :> <<"s","e","r","i","e","s">>
 @@ "open" :> <<"o","p","e","n">>
 @@ "openprice" :> <<"o","p","e","n","p","r","i","c","e">>
 @@ "high" :> <<"h","i","g","h">>
 @@ "highprice" :> <<"h","i","g","h","p","r","i","c","e">>
 @@ "low" :> <<"l","o","w">>
 @@ "lowprice" :> <<"l","o","w","p","r","i","c","e">>
 @@ "close" :> <<"c","l","o","s","e">>
 @@ "closeprice" :> <<"c","l","o","s","e","p","r","i","c","e">>
 @@ "last" :> <<"l","a","s","t">>
 @@ "lastprice" :> <<"l","a","s","t","p","r","i","c","e">>
 @@ "prevclose" :> <<"p","r","e","v","c","l","o","s","e">>
 @@ "previousclose" :> <<"p","r","e","v","i","o","u","s","c","l","o","s","e">>
 @@ "prevclosingprice" :> <<"p","r","e","v","c","l","o","s","i","n","g","p","r","i","c","e">>
 @@ "previousclosingprice" :> <<"p","r","e","v","i","o","u","s","c","l","o","s","i","n","g","p","r","i","c","e">>
 @@ "vwap" :> <<"v","w","a","p">>
 @@ "avgprice" :> <<"a","v","g","p","r","i","c","e">>
 @@ "averageprice" :> <<"a","v","e","r","a","g","e","p","r","i","c","e">>
 @@ "averagepricevwap" :> <<"a","v","e","r","a","g","e","p","r","i","c","e","v","w","a","p">>
 @@ "avgtradedprice" :> <<"a","v","g","t","r","a","d","e","d","p","r","i","c","e">>
 @@ "volume" :> <<"v","o","l","u","m","e">>
 @@ "tottrdqty" :> <<"t","o","t","t","r","d","q","t","y">>
 @@ "totaltradedquantity" :> <<"t","o","t","a","l","t","r","a","d","e","d","q","u","a","n","t","i","t","y">>
 @@ "ttltrdqnty" :> <<"t","t","l","t","r","d","q","n","t","y">>
 @@ "tradedquantity" :> <<"t","r","a","d","e","d","q","u","a","n","t","i","t","y">>
 @@ "totaltradedqty" :> <<"t","o","t","a","l","t","r","a","d","e","d","q","t","y">>
 @@ "totaltrdqnty" :> <<"t","o","t","a","l","t","r","d","q","n","t","y">>
 @@ "volumein000s" :> <<"v","o","l","u","m","e","i","n","0","0","0","s">>
 @@ "turnover" :> <<"t","u","r","n","o","v","e","r">>
 @@ "tottrdval" :> <<"t","o","t","t","r","d","v","a","l">>
 @@ "totaltradedvalue" :> <<"t","o","t","a","l","t","r","a","d","e","d","v","a","l","u","e">>
 @@ "turnoverlacs" :> <<"t","u","r","n","o","v","e","r","l","a","c","s">>
 @@ "turnoverinlakhs" :> <<"t","u","r","n","o","v","e","r","i","n","l","a","k","h","s">>
 @@ "turnoverlac" :> <<"t","u","r","n","o","v","e","r","l","a","c">>
 @@ "turnovercr" :> <<"t","u","r","n","o","v","e","r","c","r">>
 @@ "turnoverincrores" :> <<"t","u","r","n","o","v","e","r","i","n","c","r","o","r","e","s">>
 @@ "turnovercrores" :> <<"t","u","r","n","o","v","e","r","c","r","o","r","e","s">>
 @@ "trades" :> <<"t","r","a","d","e","s">>
 @@ "totaltrades" :> <<"t","o","t","a","l","t","r","a","d","e","s">>
 @@ "nooftrades" :> <<"n","o","o","f","t","r","a","d","e","s">>
 @@ "nooftrade" :> <<"n","o","o","f","t","r","a","d","e">>
 @@ "nooftrds" :> <<"n","o","o","f","t","r","d","s">>
 @@ "noofdealings" :> <<"n","o","o","f","d","e","a","l","i","n","g","s">>
 @@ "deliverablevolume" :> <<"d","e","l","i","v","e","r","a","b","l","e","v","o","l","u","m","e">>
 @@ "delivqty" :> <<"d","e","l","i","v","q","t","y">>
 @@ "deliverablevolumecontracts" :> <<"d","e","l","i","v","e","r","a","b","l","e","v","o","l","u","m","e","c","o","n","t","r","a","c","t","s">>
 @@ "deliverablequantity" :> <<"d","e","l","i","v","e","r","a","b","l","e","q","u","a","n","t","i","t","y">>
 @@ "deliveryqty" :> <<"d","e","l","i","v","e","r","y","q","t","y">>
 @@ "deliveryquantity" :> <<"d","e","l","i","v","e","r","y","q","u","a","n","t","i","t","y">>
 @@ "deliverable" :> <<"d","e","l","i","v","e","r","a","b","l","e">>
 @@ "deliverableper" :> <<"d","e","l","i","v","e","r","a","b","l","e","p","e","r">>
 @@ "deliverablepercentage" :> <<"d","e","l","i","v","e","r","a","b","l","e","p","e","r","c","e","n","t","a","g","e">>
 @@ "deliverablepct" :> <<"d","e","l","i","v","e","r","a","b","l","e","p","c","t">>
 @@ "deliverytotradedquantity" :> <<"d","e","l","i","v","e","r","y","t","o","t","r","a","d","e","d","q","u","a","n","t","i","t","y">>
 @@ "delivper" :> <<"d","e","l","i","v","p","e","r">>
 @@ "percentdeliverable" :> <<"p","e","r","c","e","n","t","d","e","l","i","v","e","r","a","b","l","e">>
 @@ "deliverablepercent" :> <<"d","e","l","i","v","e","r","a","b","l","e","p","e","r","c","e","n","t">>
 @@ "percentdeliv" :> <<"p","e","r","c","e","n","t","d","e","l","i","v">>
 @@ "percdeliv" :> <<"p","e","r","c","d","e","l","i","v">>
 @@ "timestamp" :> <<"t","i","m","e","s","t","a","m","p">>
 @@ "date" :> <<"d","a","t","e">>
 @@ "tradingdate" :> <<"t","r","a","d","i","n","g","d","a","t","e">>
 @@ "tradedate" :> <<"t","r","a","d","e","d","a","t","e">>
 @@ "tradingday" :> <<"t","r","a","d","i","n","g","d","a","y">>
 @@ "isin" :> <<"i","s","i","n">>

Upper == <<"A","B","C","D","E","F","G","H","I","J","K","L","M",
           "N","O","P","Q","R","S","T","U","V","W","X","Y","Z">>
LowerCase == <<"a","b","c","d","e","f","g","h","i","j","k","l","m",
               "n","o","p","q","r","s","t","u","v","w","x","y","z">>
Digits == {"0","1","2","3","4","5","6","7","8","9"}

Alnum == Range(Upper) \cup Range(LowerCase) \cup Digits

\* str.isalnum on one character.
isalnum(ch) == ch \in Alnum

\* str.lower on one character, and on a string.
UpperSet == Range(Upper)
lowerch(ch) ==
    IF ch \in UpperSet
    THEN LowerCase[CHOOSE i \in 1..Len(Upper) : Upper[i] = ch]
    ELSE ch
lower(cs) == [ i \in 1..Len(cs) |-> lowerch(cs[i]) ]

\* _norm(s): the alphanumeric characters of s, lower-cased.
normchars(cs) == lower(SelectSeq(cs, isalnum))

\* normchars and lower of every label, computed once (f @@ <<>> is f, held
\* as a table).
NormTable  == [ s \in DOMAIN Spelling |-> normchars(Spelling[s]) ] @@ <<>>
LowerTable == [ s \in DOMAIN Spelling |-> lower(Spelling[s]) ] @@ <<>>

_norm(s) == NormTable[s]

\* Python's  k in s  on strings: k is a substring of s.
Contains(k, s) ==
    \E i \in 0..(Len(s) - Len(k)) : \A j \in 1..Len(k) : s[i + j] = k[j]

\* s.lower() contains the hint h  (h in c.lower()).
HasHint(s, h) == Contains(Spelling[h], LowerTable[s])

\* re.match(r"^Unnamed", str(c))
MatchesUnnamed(c) ==
    LET p == Spelling["Unnamed"] cs == Spelling[c]
    IN  Len(cs) >= Len(p) /\ SubSeq(cs, 1, Len(p)) = p

\* ------------------------------------------------------------------- cells
\* A cell is a float, NaN, an infinity, Python's None, a text or a date. A
\* float is held exactly, as n/d * 10^e in lowest terms (n carries no factor
\* 10, d no factor 2 or 5), so that 1.0e11 fits the model checker's integers.
RECURSIVE Gcd(_, _)
Gcd(a, b) == IF b = 0 THEN a ELSE Gcd(b, a % b)

RECURSIVE Float(_, _, _)
Float(n, d, e) ==
    IF n = 0 THEN [ k |-> "num", n |-> 0, d |-> 1, e |-> 0, s |-> "" ]
    ELSE IF Gcd(n, d) > 1 THEN Float(n \div Gcd(n, d), d \div Gcd(n, d), e)
    ELSE IF n % 10 = 0 THEN Float(n \div 10, d, e + 1)
    ELSE IF d % 2 = 0 THEN Float(n * 5, d \div 2, e - 1)
    ELSE IF d % 5 = 0 THEN Float(n * 2, d \div 5, e - 1)
    ELSE [ k |-> "num", n |-> n, d |-> d, e |-> e, s |-> "" ]

Num(n)    == Float(n, 1, 0)
NaN       == [ k |-> "nan",  n |-> 0, d |-> 1, e |-> 0, s |-> "" ]
Inf       == [ k |-> "inf",  n |-> 0, d |-> 1, e |-> 0, s |-> "" ]
NoneV     == [ k |-> "none", n |-> 0, d |-> 1, e |-> 0, s |-> "" ]
Str(s)    == [ k |-> "str",  n |-> 0, d |-> 1, e |-> 0, s |-> s ]
DateV(o)  == [ k |-> "date", n |-> o, d |-> 1, e |-> 0, s |-> "" ]

\* pd.to_numeric(x, errors="coerce") on one cell: a number stays, anything that
\* does not parse as a number (here: text such as "-", None, a date) is NaN.
to_numeric(c) == IF c.k \in {"num", "inf"} THEN c ELSE NaN

\* x * f for a float cell and a positive factor f.
Times(c, f) == IF c.k = "num" THEN Float(c.n * f, c.d, c.e) ELSE c

\* a / b on float cells (IEEE: x/0 is inf for x > 0, 0/0 is NaN; NaN spreads).
Divide(a, b) ==
    IF a.k = "nan" \/ b.k = "nan" THEN NaN
    ELSE IF a.k = "inf" THEN (IF b.k = "inf" THEN NaN ELSE Inf)
    ELSE IF b.k = "inf" THEN Num(0)
    ELSE IF b.n = 0 THEN (IF a.n = 0 THEN NaN ELSE Inf)
    ELSE Float(a.n * b.d, a.d * b.n, a.e - b.e)

\* Series.replace([pd.NA], None): a cell that isna() becomes None. inf counts
\* as NA only inside option_context('mode.use_inf_as_na', True).
ReplaceNA(c, inf_as_na) ==
    IF c.k \in {"nan", "none"} \/ (inf_as_na /\ c.k = "inf") THEN NoneV ELSE c

\* ------------------------------------------------------------------ frames
\* A DataFrame: its column labels in order and its rows, each row the cells
\* under those labels. status "none" is Python's None, "error" a raised
\* exception.
Frame(cols, rows) == [ status |-> "ok", cols |-> cols, rows |-> rows ]
NoFrame  == [ status |-> "none",  cols |-> <<>>, rows |-> <<>> ]
ErrFrame == [ status |-> "error", cols |-> <<>>, rows |-> <<>> ]

\* df.empty: some axis has length 0.
empty(df) == Len(df.cols) = 0 \/ Len(df.rows) = 0

HasCol(df, c)   == \E j \in 1..Len(df.cols) : df.cols[j] = c
ColCount(df, c) == Cardinality({ j \in 1..Len(df.cols) : df.cols[j] = c })
ColIdx(df, c)   == CHOOSE j \in 1..Len(df.cols) : df.cols[j] = c

\* df[c] for a label held by one column: that column's cells, row by row.
Col(df, c) == [ r \in 1..Len(df.rows) |-> df.rows[r][ColIdx(df, c)] ]

\* df[c] = vals: overwrite the column(s) labelled c, or append a new column.
SetColumn(df, c, vals) ==
    IF HasCol(df, c)
    THEN Frame(df.cols,
               [ r \in 1..Len(df.rows) |->
                   [ j \in 1..Len(df.cols) |->
                       IF df.cols[j] = c THEN vals[r] ELSE df.rows[r][j] ] ])
    ELSE Frame(Append(df.cols, c),
               [ r \in 1..Len(df.rows) |-> Append(df.rows[r], vals[r]) ])

\* df.rename(columns=m): m is a function from old labels to new ones.
Rename(df, m) ==
    Frame([ j \in 1..Len(df.cols) |->
              IF df.cols[j] \in DOMAIN m THEN m[df.cols[j]] ELSE df.cols[j] ],
          df.rows)

\* The positions selected by df[labels]: for each label in turn, every column
\* that carries it.
RECURSIVE SelectIdx(_, _)
SelectIdx(cols, labels) ==
    IF labels = <<>> THEN <<>>
    ELSE LET hit == { j \in 1..Len(cols) : cols[j] = Head(labels) }
             seq == SelectSeq([ j \in 1..Len(cols) |-> j ], LAMBDA j : j \in hit)
         IN  seq \o SelectIdx(cols, Tail(labels))

Select(df, labels) ==
    LET ix == SelectIdx(df.cols, labels)
    IN  Frame([ j \in 1..Len(ix) |-> df.cols[ix[j]] ],
              [ r \in 1..Len(df.rows) |->
                  [ j \in 1..Len(ix) |-> df.rows[r][ix[j]] ] ])

\* ------------------------------------------------------------- normalizer
SYN ==
    [ symbol |-> <<"symbol">>,
      series |-> <<"series">>,
      open |-> <<"open", "openprice">>,
      high |-> <<"high", "highprice">>,
      low |-> <<"low", "lowprice">>,
      close |-> <<"close", "closeprice">>,
      last |-> <<"last", "lastprice">>,
      prev_close |-> <<"prevclose", "previousclose", "prevclosingprice", "previousclosingprice">>,
      vwap |-> <<"vwap", "avgprice", "averageprice", "averagepricevwap", "avgtradedprice">>,
      volume |-> <<"volume", "tottrdqty", "totaltradedquantity", "ttltrdqnty", "tradedquantity", "totaltradedqty", "totaltrdqnty", "volumein000s">>,
      turnover |-> <<"turnover", "tottrdval", "totaltradedvalue", "turnoverlacs", "turnoverinlakhs", "turnoverlac", "turnovercr", "turnoverincrores", "turnovercrores">>,
      trades |-> <<"trades", "totaltrades", "nooftrades", "nooftrade", "nooftrds", "noofdealings">>,
      deliv_vol |-> <<"deliverablevolume", "delivqty", "deliverablevolumecontracts", "deliverablequantity", "deliveryqty", "deliveryquantity">>,
      deliv_pct |-> <<"deliverable", "deliverableper", "deliverablepercentage", "deliverablepct", "deliverytotradedquantity", "delivper", "percentdeliverable", "deliverablepercent", "percentdeliv", "percdeliv">>,
      datecol |-> <<"timestamp", "date", "tradingdate", "tradedate", "tradingday">>,
      isin |-> <<"isin">> ]

\* Fields in the order standardize_bhavcopy picks them and fills rename_map.
PickOrder ==
    <<"symbol", "series", "open", "high", "low", "close", "last", "prev_close",
      "vwap", "volume", "turnover", "trades", "deliv_vol", "deliv_pct", "isin">>

\* The canonical label each picked field is renamed to.
CanonName ==
    [ symbol |-> "Symbol", series |-> "Series", open |-> "Open", high |-> "High",
      low |-> "Low", close |-> "Close", last |-> "Last",
      prev_close |-> "Prev Close", vwap |-> "VWAP", volume |-> "Volume",
      turnover |-> "Turnover", trades |-> "Trades",
      deliv_vol |-> "Deliverable Volume", deliv_pct |-> "Deliverable %",
      isin |-> "ISIN" ]

cols_order ==
    <<"Date", "Symbol", "Series", "Prev Close", "Open", "High", "Low", "Last",
      "Close", "VWAP", "Volume", "Turnover", "Trades", "Deliverable Volume",
      "Deliverable %", "ISIN">>

\* The columns converted by the "numerics for price fields" loop.
NumericCols ==
    <<"Open", "High", "Low", "Close", "Last", "Prev Close", "VWAP", "Trades",
      "Deliverable Volume", "Deliverable %">>

\* find_col returns None when nothing matches; as a label None is falsy, like "".
NoCol == ""

\* The order in which Python iterates an alias set. The language leaves it
\* open (it follows the strings' hashes, which change from run to run), and
\* it is the same for every call within one run. "fwd" is the order the
\* aliases are written in, "rev" the opposite one: with at most two aliases
\* of a field among a table's labels, either of them can come first.
SetOrders == {"fwd", "rev"}
KeysIter(field, order) ==
    IF order = "fwd" THEN SYN[field] ELSE Reverse(SYN[field])

\* norm2orig = {_norm(c): c for c in df.columns}: a dict keeps a key at the
\* place of its first insertion and the value of its last one.
DictPut(d, key, val) ==
    IF \E i \in 1..Len(d) : d[i].k = key
    THEN [ i \in 1..Len(d) |-> IF d[i].k = key THEN [ k |-> key, v |-> val ] ELSE d[i] ]
    ELSE Append(d, [ k |-> key, v |-> val ])

RECURSIVE norm2orig(_)
norm2orig(cols) ==
    IF cols = <<>> THEN <<>>
    ELSE LET c == cols[Len(cols)]
         IN  DictPut(norm2orig(SubSeq(cols, 1, Len(cols) - 1)), _norm(c), c)

\* find_col(keys): the exact pass over the aliases in iteration order, then
\* the fuzzy pass over the labels in dict order.
\* FuzzyTable[f]: the labels c such that some alias of field f is a substring
\* of _norm(c), computed once.
FuzzyMatch(f, c) ==
    \E i \in 1..Len(SYN[f]) : Contains(Spelling[SYN[f][i]], _norm(c))

FuzzyTable ==
    [ f \in Range(PickOrder) |->
        { c : c \in { d \in DOMAIN Spelling : FuzzyMatch(f, d) } } ] @@ <<>>

find_col(field, n2o, order) ==
    LET keys  == KeysIter(field, order)
        exact == { i \in 1..Len(keys) :
                     \E e \in 1..Len(n2o) : n2o[e].k = Spelling[keys[i]] }
        fuzzy == { e \in 1..Len(n2o) : n2o[e].v \in FuzzyTable[field] }
    IN  IF exact # {}
        THEN LET key == Spelling[keys[Min(exact)]]
             IN  n2o[CHOOSE e \in 1..Len(n2o) : n2o[e].k = key].v
        ELSE IF fuzzy # {} THEN n2o[Min(fuzzy)].v
        ELSE NoCol

pick(field, n2o, order) == find_col(field, n2o, order)

\* rename_map were an earlier assignment to a key kept.
rename_map_first(picked) ==
    [ c \in { picked[f] : f \in Range(PickOrder) } \ {NoCol} |->
        CanonName[PickOrder[Min({ i \in 1..Len(PickOrder) : picked[PickOrder[i]] = c })]] ]

\* rename_map after the fifteen  if c_x: rename_map[c_x] = ...  statements:
\* a later assignment to the same key replaces an earlier one.
rename_map(picked) ==
    [ c \in { picked[f] : f \in Range(PickOrder) } \ {NoCol} |->
        CanonName[PickOrder[Max({ i \in 1..Len(PickOrder) : picked[PickOrder[i]] = c })]] ]

\* df[c] = pd.to_numeric(df[c], errors="coerce") * factor
ScaleColumn(df, c, factor) ==
    SetColumn(df, c, [ r \in 1..Len(df.rows) |-> Times(to_numeric(Col(df, c)[r]), factor) ])

\* The factor of the Volume and Turnover unit normalization, from the
\* original label of the resolved column.
VolumeFactor(c_vol) ==
    IF HasHint(c_vol, "000") \/ HasHint(c_vol, "thousand") THEN 1000 ELSE 1
\* The Turnover factor with the two units taken for each other.
TurnoverFactor_swapped(c_val) ==
    IF HasHint(c_val, "lakh") \/ HasHint(c_val, "lac") \/ HasHint(c_val, "lacs")
    THEN 10000000
    ELSE IF HasHint(c_val, "cr") \/ HasHint(c_val, "crore") \/ HasHint(c_val, "crores")
    THEN 100000
    ELSE 1

TurnoverFactor(c_val) ==
    IF HasHint(c_val, "lakh") \/ HasHint(c_val, "lac") \/ HasHint(c_val, "lacs")
    THEN 100000
    ELSE IF HasHint(c_val, "cr") \/ HasHint(c_val, "crore") \/ HasHint(c_val, "crores")
    THEN 10000000
    ELSE 1

\* The numeric loop over NumericCols, from position i on.
RECURSIVE NumericLoop(_, _)
NumericLoop(df, i) ==
    IF i > Len(NumericCols) THEN df
    ELSE IF HasCol(df, NumericCols[i])
    THEN NumericLoop(ScaleColumn(df, NumericCols[i], 1), i + 1)
    ELSE NumericLoop(df, i + 1)

\* The labels whose column standardize_bhavcopy reads as df[label] and hands
\* to pd.to_numeric. With the label on two columns df[label] is a DataFrame
\* and pd.to_numeric raises TypeError.
ConvertedLabels(df, c_vol, c_val) ==
    { c \in Range(NumericCols) : HasCol(df, c) }
    \cup (IF HasCol(df, "Volume") /\ c_vol # NoCol THEN {"Volume"} ELSE {})
    \cup (IF HasCol(df, "Turnover") /\ c_val # NoCol THEN {"Turnover"} ELSE {})

derive_vwap(df) ==
    IF ~HasCol(df, "VWAP") /\ HasCol(df, "Turnover") /\ HasCol(df, "Volume")
    THEN SetColumn(df, "VWAP",
            [ r \in 1..Len(df.rows) |->
                ReplaceNA(Divide(Col(df, "Turnover")[r], Col(df, "Volume")[r]), TRUE) ])
    ELSE df

derive_deliv_pct(df) ==
    IF ~HasCol(df, "Deliverable %") /\ HasCol(df, "Deliverable Volume") /\ HasCol(df, "Volume")
    THEN SetColumn(df, "Deliverable %",
            [ r \in 1..Len(df.rows) |->
                ReplaceNA(Times(Divide(Col(df, "Deliverable Volume")[r],
                                       Col(df, "Volume")[r]), 100), FALSE) ])
    ELSE df

\* The final order were the canonical columns kept in the order found.
final_order_as_found(df) ==
    LET present == SelectSeq(df.cols, LAMBDA c : c \in Range(cols_order))
        extras  == SelectSeq(df.cols, LAMBDA c : c \notin Range(present))
    IN  present \o extras

\* present + extras of the final column order.
final_order(df) ==
    LET present == SelectSeq(cols_order, LAMBDA c : HasCol(df, c))
        extras  == SelectSeq(df.cols, LAMBDA c : c \notin Range(present))
    IN  present \o extras

\* The fields' resolved columns (c_symbol ... c_isin).
RECURSIVE PickUpTo(_, _, _)
PickUpTo(i, n2o, order) ==
    IF i = 0 THEN <<>>
    ELSE (PickOrder[i] :> pick(PickOrder[i], n2o, order)) @@ PickUpTo(i - 1, n2o, order)
picked_cols(df, order) == PickUpTo(Len(PickOrder), norm2orig(df.cols), order)

\* The Date column were it filled with the day before.
stamp_date_day_before(df, report_date) ==
    SetColumn(df, "Date", [ r \in 1..Len(df.rows) |-> DateV(report_date - 1) ])

\* df["Date"] = report_date
stamp_date(df, report_date) ==
    SetColumn(df, "Date", [ r \in 1..Len(df.rows) |-> DateV(report_date) ])

\* standardize_bhavcopy past its first test: the table is there and not empty.
standardize_table(df, report_date, order) ==
    LET picked == picked_cols(df, order)
        c_vol  == picked["volume"]
        c_val  == picked["turnover"]
        df1 == Rename(df, rename_map(picked))
        df2 == stamp_date(df1, report_date)
        df3 == IF HasCol(df2, "Volume") /\ c_vol # NoCol
               THEN ScaleColumn(df2, "Volume", VolumeFactor(c_vol))
               ELSE df2
        df4 == IF HasCol(df3, "Turnover") /\ c_val # NoCol
               THEN ScaleColumn(df3, "Turnover", TurnoverFactor(c_val))
               ELSE df3
        df5 == NumericLoop(df4, 1)
        df6 == derive_vwap(df5)
        df7 == derive_deliv_pct(df6)
    IN  IF \E c \in ConvertedLabels(df2, c_vol, c_val) : ColCount(df2, c) > 1
        THEN ErrFrame
        ELSE Select(df7, final_order(df7))

\* standardize_bhavcopy without its test for an empty table.
standardize_bhavcopy_unguarded(df, report_date, order) ==
    IF df.status # "ok" THEN NoFrame
    ELSE standardize_table(df, report_date, order)

standardize_bhavcopy(df, report_date, order) ==
    IF df.status # "ok" \/ empty(df) THEN NoFrame
    ELSE standardize_table(df, report_date, order)

\* ------------------------------------------------ adapters and date lookup
UDIFF_START_DATE == 739075   \* date(2024, 7, 8).toordinal()

\* date.weekday() of a date given by its ordinal: Monday is 0.
weekday(d) == (d + 6) % 7

\* The weekend test were Saturday let through.
is_weekend_sunday(d) == weekday(d) > 5

\* d.weekday() >= 5
is_weekend(d) == weekday(d) >= 5

\* The calendar year of a date given by its ordinal (proleptic Gregorian).
YearOf(d) ==
    LET n0   == d - 1
        n400 == n0 \div 146097
        r400 == n0 % 146097
        n100 == r400 \div 36524
        r100 == r400 % 36524
        n4   == r100 \div 1461
        r4   == r100 % 1461
        n1   == r4 \div 365
        y    == n400 * 400 + n100 * 100 + n4 * 4 + n1 + 1
    IN  IF n1 = 4 \/ n100 = 4 THEN y - 1 ELSE y

\* download_old_bhavcopy: `response` is the table read from the archive, or
\* NoFrame for a 404 or any exception on the way.
download_old_bhavcopy(response, report_date) ==
    IF response.status # "ok" THEN NoFrame
    ELSE SetColumn(response, "Date",
                   [ r \in 1..Len(response.rows) |-> DateV(report_date) ])

\* download_new_bhavcopy: `response` is what nse.get_bhavcopy returned, or
\* NoFrame for None or an exception.
download_new_bhavcopy(response, report_date) ==
    IF response.status # "ok" \/ Len(response.rows) = 0 THEN NoFrame
    ELSE LET keep == SelectSeq(response.cols, LAMBDA c : ~MatchesUnnamed(c))
             df   == Select(response, keep)
         IN  SetColumn(df, "Date", [ r \in 1..Len(df.rows) |-> DateV(report_date) ])

\* The raw table get_bhavcopy_for_date gets from the adapter of the date.
adapter_result(response, report_date) ==
    IF report_date < UDIFF_START_DATE
    THEN download_old_bhavcopy(response, report_date)
    ELSE download_new_bhavcopy(response, report_date)

\* Whether get_bhavcopy_for_date reaches its call of standardize_bhavcopy.
calls_normalizer(response, report_date) ==
    /\ ~is_weekend(report_date)
    /\ adapter_result(response, report_date).status = "ok"
    /\ ~empty(adapter_result(response, report_date))

get_bhavcopy_for_date(response, report_date, order) ==
    IF is_weekend(report_date) THEN NoFrame
    ELSE LET raw_df == adapter_result(response, report_date)
         IN  IF raw_df.status # "ok" \/ empty(raw_df) THEN NoFrame
             ELSE standardize_bhavcopy(raw_df, report_date, order)

\* -------------------------------------------------- filter, concat, writer
WATCHLIST ==
    { "RELIANCE","HDFCBANK","BHARTIARTL","TCS","ICICIBANK","SBIN","BAJFINANCE",
      "INFY","HINDUNILVR","LICI","MARUTI","LT","ITC","M&M","KOTAKBANK",
      "SUNPHARMA","HCLTECH","AXISBANK","ULTRACEMCO","NTPC","BAJAJFINSV",
      "HAL","ADANIPORTS","ONGC","TITAN","DMART","ADANIENT","BEL","ADANIPOWER",
      "JSWSTEEL","POWERGRID","WIPRO","BAJAJ-AUTO","TATAMOTORS","COALINDIA",
      "ASIANPAINT","NESTLEIND","TATASTEEL","IOC","HINDZINC",
      "EICHERMOT","GRASIM","SBILIFE","VEDL","DLF","ADANIGREEN" }

\* df[df["Symbol"].isin(watchlist)]; a frame without a Symbol column raises
\* KeyError.
filter_selected_stocks(df) ==
    IF df.status # "ok" \/ empty(df) THEN Frame(<<>>, <<>>)
    ELSE IF ~HasCol(df, "Symbol") THEN ErrFrame
    ELSE Frame(df.cols,
               SelectSeq(df.rows,
                   LAMBDA row : /\ row[ColIdx(df, "Symbol")].k = "str"
                                /\ row[ColIdx(df, "Symbol")].s \in WATCHLIST))

\* The labels of the frames in order of first appearance.
RECURSIVE UnionCols(_)
UnionCols(dfs) ==
    IF dfs = <<>> THEN <<>>
    ELSE LET before == UnionCols(SubSeq(dfs, 1, Len(dfs) - 1))
         IN  before \o SelectSeq(dfs[Len(dfs)].cols, LAMBDA c : c \notin Range(before))

\* A frame's rows laid out under the labels `cols`; a label the frame lacks
\* gives NaN.
Reindexed(df, cols) ==
    [ r \in 1..Len(df.rows) |->
        [ j \in 1..Len(cols) |->
            IF HasCol(df, cols[j]) THEN df.rows[r][ColIdx(df, cols[j])] ELSE NaN ] ]

RECURSIVE ConcatRows(_, _)
ConcatRows(dfs, cols) ==
    IF dfs = <<>> THEN <<>>
    ELSE Reindexed(Head(dfs), cols) \o ConcatRows(Tail(dfs), cols)

\* pd.concat(all_dfs, ignore_index=True) of frames with distinct labels each.
concat(dfs) == Frame(UnionCols(dfs), ConcatRows(dfs, UnionCols(dfs)))

\* The characters of the labels in code point order, for str comparison.
CodeOrder ==
    <<" ","%","&","(",")","-",".","0","1","2","3","4","5","6","7","8","9",":">>
    \o Upper \o <<"_">> \o LowerCase
Code(ch) == CHOOSE i \in 1..Len(CodeOrder) : CodeOrder[i] = ch

\* a < b on str: at the first place they differ, or a is a proper prefix.
StrLess(a, b) ==
    LET x == Spelling[a] y == Spelling[b]
        m == IF Len(x) < Len(y) THEN Len(x) ELSE Len(y)
        diff == { i \in 1..m : x[i] # y[i] }
    IN  IF diff = {} THEN Len(x) < Len(y)
        ELSE Code(x[Min(diff)]) < Code(y[Min(diff)])

\* The sort key order of sort_values(['Date', 'Symbol']) on two rows.
KeyLess(df, r1, r2) ==
    LET d1 == r1[ColIdx(df, "Date")].n   d2 == r2[ColIdx(df, "Date")].n
        s1 == r1[ColIdx(df, "Symbol")].s s2 == r2[ColIdx(df, "Symbol")].s
    IN  d1 < d2 \/ (d1 = d2 /\ StrLess(s1, s2))

\* sort_values were the rows left as they came.
sort_values_unsorted(df, rows) == rows

\* sort_values(['Date', 'Symbol']): ascending, rows with equal keys keep
\* their order.
RECURSIVE sort_values(_, _)
sort_values(df, rows) ==
    IF rows = <<>> THEN <<>>
    ELSE LET last   == rows[Len(rows)]
             sorted == sort_values(df, SubSeq(rows, 1, Len(rows) - 1))
             upto   == { i \in 0..Len(sorted) :
                           \A j \in 1..i : ~KeyLess(df, last, sorted[j]) }
             at     == Max(upto)
         IN  SubSeq(sorted, 1, at) \o <<last>> \o SubSeq(sorted, at + 1, Len(sorted))

\* sorted(filtered_df['Year'].unique())
RECURSIVE SortedSeq(_)
SortedSeq(S) == IF S = {} THEN <<>> ELSE <<Min(S)>> \o SortedSeq(S \ {Min(S)})

\* save_excel_by_year: the sheets written, one per year, each with the year
\* and the rows handed to to_excel. An empty table writes nothing.
save_excel_by_year(filtered_df) ==
    IF empty(filtered_df) THEN <<>>
    ELSE LET year(row) == YearOf(row[ColIdx(filtered_df, "Date")].n)
             years == SortedSeq({ year(filtered_df.rows[r]) : r \in 1..Len(filtered_df.rows) })
         IN  [ i \in 1..Len(years) |->
                 [ year |-> years[i],
                   rows |-> sort_values(filtered_df,
                               SelectSeq(filtered_df.rows, LAMBDA row : year(row) = years[i])) ] ]

\* ------------------------------------------------------------------- state
VARIABLES
    pc,           \* where the run is
    setOrder,     \* this run's iteration order of the alias sets
    report_date,  \* the date handed to the normalizer
    raw,          \* the table handed to the normalizer / returned by the source
    out,          \* standardize_bhavcopy(raw, report_date), or the fetch result
    out2,         \* standardize_bhavcopy(out, report_date)
    called,       \* whether get_bhavcopy_for_date called the normalizer
    start_date, end_date, cur, total_ok, total_fail, all_dfs,  \* the main loop
    visited,      \* the dates the loop has handled, in order
    fetches,      \* the dates get_bhavcopy_for_date was called for, in order
    fetched_for,  \* fetched_for[i] is the date all_dfs[i] was fetched for
    master,       \* pd.concat(all_dfs)
    filtered,     \* filter_selected_stocks(master)
    sheets        \* the per-year sheets save_excel_by_year wrote

normVars == <<setOrder, report_date, raw, out, out2, called>>
loopVars == <<start_date, end_date, cur, total_ok, total_fail, all_dfs,
              visited, fetches, fetched_for>>
tailVars == <<master, filtered, sheets>>
vars == <<pc, normVars, loopVars, tailVars>>

NormIdle ==
    /\ setOrder = "fwd" /\ report_date = UDIFF_START_DATE /\ raw = NoFrame
    /\ out = NoFrame /\ out2 = NoFrame /\ called = FALSE
LoopIdle ==
    /\ start_date = UDIFF_START_DATE /\ end_date = UDIFF_START_DATE
    /\ cur = UDIFF_START_DATE /\ total_ok = 0 /\ total_fail = 0
    /\ all_dfs = <<>> /\ visited = <<>> /\ fetches = <<>> /\ fetched_for = <<>>
TailIdle ==
    /\ master = NoFrame /\ filtered = NoFrame /\ sheets = <<>>

\* ------------------------------------------------ the normalizer on its own
\* Labels a raw table may carry.
Pool ==
    <<"SYMBOL", "TOT_TRD_QTY", "Volume in 000s", "TURNOVER_LACS", "TOTTRDVAL",
      "Turnover (Rs. Cr)", "DELIV_QTY", "Deliverable Volume", "PREVCLOSE", "DIAG">>

\* Values a raw cell may hold: zero, a number, a text that is no number.
CellPool == << Num(0), Num(1000000), Str("-") >>

\* The labels of Pool at the positions S, in Pool's order or in the opposite one.
ColsOf(S, rev) ==
    LET s == SelectSeq(Pool, LAMBDA c : \E i \in S : Pool[i] = c)
    IN  IF rev THEN Reverse(s) ELSE s

\* A row of n cells: it starts at CellPool[a] and moves `stride` places
\* through CellPool from one column to the next.
RowOf(n, a, stride) ==
    [ j \in 1..n |-> CellPool[((a - 1 + stride * (j - 1)) % Len(CellPool)) + 1] ]

\* A raw table drawn as input: the labels of Pool at the positions S, n rows,
\* row r starting at CellPool[as[r]].
RawTable(S, rev, stride, n, as) ==
    Frame(ColsOf(S, rev), [ r \in 1..n |-> RowOf(Cardinality(S), as[r], stride) ])

\* The inputs: no table at all, or a table of one to MaxCols labels of Pool
\* and up to MaxRows rows.
InitNorm ==
    /\ pc = "start"
    /\ setOrder \in SetOrders
    /\ report_date = UDIFF_START_DATE
    /\ \/ raw = NoFrame
       \/ \E S \in { T \in SUBSET (1..Len(Pool)) : Cardinality(T) \in 1..MaxCols },
             rev \in BOOLEAN, stride \in 0..1, n \in 0..MaxRows :
               \E as \in [ 1..n -> 1..Len(CellPool) ] :
                   raw = RawTable(S, rev, stride, n, as)
    /\ out = NoFrame /\ out2 = NoFrame /\ called = FALSE
    /\ LoopIdle /\ TailIdle

\* standardize_bhavcopy(raw, report_date)
Standardize ==
    /\ pc = "start"
    /\ out' = standardize_bhavcopy(raw, report_date, setOrder)
    /\ pc' = "standardized"
    /\ UNCHANGED <<setOrder, report_date, raw, out2, called, loopVars, tailVars>>

\* standardize_bhavcopy applied to its own result.
Restandardize ==
    /\ pc = "standardized"
    /\ out.status = "ok"
    /\ out2' = standardize_bhavcopy(out, report_date, setOrder)
    /\ pc' = "restandardized"
    /\ UNCHANGED <<setOrder, report_date, raw, out, called, loopVars, tailVars>>

\* get_bhavcopy_for_date(report_date), the source returning raw.
GetBhavcopy ==
    /\ pc = "start"
    /\ out' = get_bhavcopy_for_date(raw, report_date, setOrder)
    /\ called' = calls_normalizer(raw, report_date)
    /\ pc' = "fetched"
    /\ UNCHANGED <<setOrder, report_date, raw, out2, loopVars, tailVars>>

NextNorm == Standardize \/ Restandardize \/ GetBhavcopy

SpecNorm == InitNorm /\ [][NextNorm]_vars

\* ----------------------------------------------------------- the main run
\* Most days between start_date and end_date.
MaxSpan == 4


\* What a source may return for a day: nothing (404, an exception, None), a
\* table without rows, or a table.
Responses ==
    { NoFrame,
      Frame(<<"SYMBOL">>, <<>>),
      Frame(<<"SYMBOL", "Date", "Unnamed: 13">>,
            << <<Str("TCS"), DateV(738886), NaN>>,
               <<Str("ZZZ"), DateV(738886), NaN>> >>),
      Frame(<<"SYMBOL", "TIMESTAMP">>, << <<Str("ZZZ"), Str("-")>> >>) }

RunStarts == { UDIFF_START_DATE - 3, UDIFF_START_DATE - 1 }

InitRun ==
    /\ pc = "loop"
    /\ setOrder \in SetOrders
    /\ report_date = UDIFF_START_DATE /\ raw = NoFrame
    /\ out = NoFrame /\ out2 = NoFrame /\ called = FALSE
    /\ start_date \in RunStarts
    /\ end_date \in (start_date - 2)..(start_date + MaxSpan)
    /\ cur = start_date
    /\ total_ok = 0 /\ total_fail = 0
    /\ all_dfs = <<>> /\ visited = <<>> /\ fetches = <<>> /\ fetched_for = <<>>
    /\ TailIdle

\* One pass of the while loop on a weekend day.
SkipWeekend ==
    /\ pc = "loop" /\ cur <= end_date /\ is_weekend(cur)
    /\ visited' = Append(visited, cur)
    /\ cur' = cur + 1
    /\ UNCHANGED <<pc, normVars, start_date, end_date, total_ok, total_fail,
                   all_dfs, fetches, fetched_for, tailVars>>

\* One pass of the while loop on a weekday: fetch, count, collect. An
\* exception out of get_bhavcopy_for_date ends the run.
FetchDay ==
    /\ pc = "loop" /\ cur <= end_date /\ ~is_weekend(cur)
    /\ \E response \in Responses :
         \E df \in { get_bhavcopy_for_date(response, cur, setOrder) } :
             /\ visited' = Append(visited, cur)
             /\ fetches' = Append(fetches, cur)
             /\ IF df.status = "error"
                THEN /\ pc' = "crashed"
                     /\ UNCHANGED <<cur, total_ok, total_fail, all_dfs, fetched_for>>
                ELSE /\ pc' = pc
                     /\ cur' = cur + 1
                     /\ IF df.status = "ok" /\ ~empty(df)
                        THEN /\ all_dfs' = Append(all_dfs, df)
                             /\ fetched_for' = Append(fetched_for, cur)
                             /\ total_ok' = total_ok + 1
                             /\ UNCHANGED total_fail
                        ELSE /\ total_fail' = total_fail + 1
                             /\ UNCHANGED <<total_ok, all_dfs, fetched_for>>
    /\ UNCHANGED <<normVars, start_date, end_date, tailVars>>

\* The loop is over and something was collected: master = pd.concat(all_dfs).
Concat ==
    /\ pc = "loop" /\ cur > end_date /\ all_dfs # <<>>
    /\ master' = concat(all_dfs)
    /\ pc' = "merged"
    /\ UNCHANGED <<normVars, loopVars, filtered, sheets>>

\* The loop is over and nothing was collected.
NoData ==
    /\ pc = "loop" /\ cur > end_date /\ all_dfs = <<>>
    /\ pc' = "done"
    /\ UNCHANGED <<normVars, loopVars, tailVars>>

\* filtered = filter_selected_stocks(master)
Filter ==
    /\ pc = "merged"
    /\ filtered' = filter_selected_stocks(master)
    /\ pc' = IF filtered'.status = "error" THEN "crashed" ELSE "filtered"
    /\ UNCHANGED <<normVars, loopVars, master, sheets>>

\* save_excel_by_year(filtered, ...) when filtered is not empty.
Save ==
    /\ pc = "filtered" /\ ~empty(filtered)
    /\ sheets' = save_excel_by_year(filtered)
    /\ pc' = "done"
    /\ UNCHANGED <<normVars, loopVars, master, filtered>>

\* No row matched the watchlist.
NoMatch ==
    /\ pc = "filtered" /\ empty(filtered)
    /\ pc' = "done"
    /\ UNCHANGED <<normVars, loopVars, tailVars>>

NextRun == SkipWeekend \/ FetchDay \/ Concat \/ NoData \/ Filter \/ Save \/ NoMatch

SpecRun == InitRun /\ [][NextRun]_vars

\* ------------------------------------------- save_excel_by_year on its own
\* Most rows of a table drawn as input of save_excel_by_year.
MaxSaveRows == 3

\* The last weekday of 2023, the first and the last day of 2024, the first
\* day of 2025.
SaveDates == { 738883, 738886, 739251, 739252 }
SaveSymbols == { "INFY", "ITC", "TCS" }

\* A table of n watchlist rows; the Trades cell numbers the rows, so that
\* every row of a table is told from the others.
SaveTable(n, ds, ss) ==
    Frame(<<"Date", "Symbol", "Trades">>,
          [ r \in 1..n |-> <<DateV(ds[r]), Str(ss[r]), Num(r)>> ])

InitSave ==
    /\ pc = "input"
    /\ \E n \in 0..MaxSaveRows :
         \E ds \in [ 1..n -> SaveDates ], ss \in [ 1..n -> SaveSymbols ] :
             filtered = SaveTable(n, ds, ss)
    /\ master = NoFrame /\ sheets = <<>>
    /\ NormIdle /\ LoopIdle

SaveExcelByYear ==
    /\ pc = "input"
    /\ sheets' = save_excel_by_year(filtered)
    /\ pc' = "saved"
    /\ UNCHANGED <<normVars, loopVars, master, filtered>>

SpecSave == InitSave /\ [][SaveExcelByYear]_vars

\* ------------------------------------------- properties of the normalizer
\* The fields' resolved columns and the rename map of the table in `raw`.
Picked  == picked_cols(raw, setOrder)
Renamed == rename_map(Picked)

\* Some declared alias of field F is the normalized form of the label c.
IsAlias(F, c) == \E i \in 1..Len(SYN[F]) : Spelling[SYN[F][i]] = _norm(c)

\* The cell y of the output can come from the raw cell x: x itself, or its
\* numeric value, as it is or scaled by a unit factor.
DerivedFrom(y, x) ==
    \/ y = x
    \/ y = to_numeric(x)
    \/ \E f \in {1000, 100000, 10000000} : y = Times(to_numeric(x), f)

\* Column p of the output holds the values of column j of the raw table.
HoldsValuesOf(p, j) ==
    \A r \in 1..Len(raw.rows) : DerivedFrom(out.rows[r][p], raw.rows[r][j])

Normalized == pc = "standardized" /\ out.status = "ok"

\* C1: whenever a raw header normalizes to a declared alias of a canonical
\* field, the column of the output holding that header's values carries the
\* field's canonical name.
C1_AliasGetsCanonicalName ==
    Normalized =>
        \A i \in 1..Len(PickOrder), j \in 1..Len(raw.cols) :
            IsAlias(PickOrder[i], raw.cols[j]) =>
                \E p \in 1..Len(out.cols) :
                    /\ out.cols[p] = CanonName[PickOrder[i]]
                    /\ HoldsValuesOf(p, j)

\* The canonical column c of the output was computed by the normalizer: no
\* raw column was renamed to it.
Derived(rmap, c) == HasCol(out, c) /\ \A l \in DOMAIN rmap : rmap[l] # c

Missing(x) == x.k \in {"nan", "none"}
IsZero(x)  == x.k = "num" /\ x.n = 0

\* C2: a derived VWAP or Deliverable % is missing in every row whose Volume
\* is zero or whose operand is missing, and never an infinity.
C2_DerivedNeverInfinite ==
    Normalized =>
        LET rmap == Renamed
        IN  \A r \in 1..Len(out.rows) :
            /\ Derived(rmap, "VWAP") =>
                 /\ Col(out, "VWAP")[r].k # "inf"
                 /\ (IsZero(Col(out, "Volume")[r]) \/ Missing(Col(out, "Volume")[r])
                       \/ Missing(Col(out, "Turnover")[r]))
                    => Missing(Col(out, "VWAP")[r])
            /\ Derived(rmap, "Deliverable %") =>
                 /\ Col(out, "Deliverable %")[r].k # "inf"
                 /\ (IsZero(Col(out, "Volume")[r]) \/ Missing(Col(out, "Volume")[r])
                       \/ Missing(Col(out, "Deliverable Volume")[r]))
                    => Missing(Col(out, "Deliverable %")[r])

\* C3: normalizing an already normalized table again for the same date
\* keeps the column names and their order, and the values of Volume and
\* Turnover.
C3_SecondPassChangesNothing ==
    pc = "restandardized" =>
        /\ out2.status = "ok"
        /\ out2.cols = out.cols
        /\ HasCol(out, "Volume") => Col(out2, "Volume") = Col(out, "Volume")
        /\ HasCol(out, "Turnover") => Col(out2, "Turnover") = Col(out, "Turnover")

\* The power of ten of the Turnover factor expected for a column whose
\* original label is c.
TurnoverShift(c) ==
    IF HasHint(c, "lakh") \/ HasHint(c, "lac") \/ HasHint(c, "lacs") THEN 5
    ELSE IF HasHint(c, "cr") \/ HasHint(c, "crore") \/ HasHint(c, "crores") THEN 7
    ELSE 0

\* C4: each row's Turnover is the raw numeric value times one factor chosen
\* from the original label of the column: 10^5 for a lakh hint, 10^7 for a
\* crore hint, 1 otherwise.
C4_TurnoverInRupees ==
    (Normalized /\ HasCol(out, "Turnover")) =>
        LET rmap == Renamed
        IN  \A l \in DOMAIN rmap :
            rmap[l] = "Turnover" =>
                \A r \in 1..Len(raw.rows) :
                    LET x == raw.rows[r][ColIdx(raw, l)]
                        y == Col(out, "Turnover")[r]
                    IN  IF x.k # "num" THEN y.k = "nan"
                        ELSE /\ y.k = "num" /\ y.n = x.n /\ y.d = x.d
                             /\ y.e = IF x.n = 0 THEN 0 ELSE x.e + TurnoverShift(l)

\* 1,000,000 under TURNOVER_LACS has become 1.0e11.
C4_Witness ==
    /\ Normalized
    /\ HasCol(raw, "TURNOVER_LACS") /\ HasCol(out, "Turnover")
    /\ Len(raw.rows) = 1
    /\ raw.rows[1][ColIdx(raw, "TURNOVER_LACS")] = Num(1000000)
    /\ Col(out, "Turnover")[1] = [ k |-> "num", n |-> 1, d |-> 1, e |-> 11, s |-> "" ]

C6_ColumnOrder ==
    Normalized =>
        LET rmap   == Renamed
            canon  == SelectSeq(cols_order, LAMBDA c : HasCol(out, c))
            extras == SelectSeq(raw.cols, LAMBDA c : c \notin DOMAIN rmap)
        IN  /\ out.cols = canon \o extras
            /\ Cardinality(Range(out.cols)) = Len(out.cols)
            /\ \A l \in DOMAIN rmap : HasCol(out, rmap[l])
            /\ Len(out.cols) >= Len(raw.cols)

C6_Witness ==
    /\ Normalized
    /\ raw.cols = <<"DIAG", "TOT_TRD_QTY", "SYMBOL">>
    /\ out.cols = <<"Date", "Symbol", "Volume", "DIAG">>

\* The places in PickOrder of the fields resolved to the raw label c.
FieldsOf(picked, c) == { i \in 1..Len(PickOrder) : picked[PickOrder[i]] = c }

DatesIn(df) == [ r \in 1..Len(df.rows) |-> df.rows[r][ColIdx(df, "Date")] ]

\* The Date cells the rows of the first n collected tables must carry:
\* for each table, the day it was fetched for, once per row.
RECURSIVE FetchDates(_)
FetchDates(n) ==
    IF n = 0 THEN <<>>
    ELSE FetchDates(n - 1)
         \o [ r \in 1..Len(all_dfs[n].rows) |-> DateV(fetched_for[n]) ]

\* C7: every row collected for the master table carries the trading day of
\* the iteration that fetched it, whatever the source sent; later
\* iterations, the concatenation and the watchlist filter leave it alone.
C7_DateIsFetchDay ==
    /\ Len(fetched_for) = Len(all_dfs)
    /\ \A i \in 1..Len(all_dfs) :
         /\ HasCol(all_dfs[i], "Date")
         /\ \A r \in 1..Len(all_dfs[i].rows) :
              DatesIn(all_dfs[i])[r] = DateV(fetched_for[i])
    /\ master.status = "ok" =>
         /\ HasCol(master, "Date")
         /\ DatesIn(master) = FetchDates(Len(all_dfs))
    /\ (filtered.status = "ok" /\ master.status = "ok") =>
         /\ filtered.cols = master.cols
         /\ \A r \in 1..Len(filtered.rows) :
              \E m \in 1..Len(master.rows) : filtered.rows[r] = master.rows[m]

\* Two days had data, one from the archive and one from the new source,
\* and their rows went through concatenation and filter.
C7_Witness ==
    /\ pc = "done"
    /\ Len(all_dfs) = 2
    /\ fetched_for[1] < UDIFF_START_DATE /\ fetched_for[2] >= UDIFF_START_DATE
    /\ Len(master.rows) = 4
    /\ Len(filtered.rows) = 2
    /\ DatesIn(filtered) = <<DateV(fetched_for[1]), DateV(fetched_for[2])>>

\* The weekdays among the first n days from start_date on.
WeekdaysVisited == { i \in 1..Len(visited) : weekday(visited[i]) < 5 }
WeekdaysOfRange == { d \in start_date..end_date : weekday(d) < 5 }

LoopCounters ==
    /\ total_ok + total_fail = Cardinality(WeekdaysVisited)
    /\ total_ok = Len(all_dfs)
    /\ \A i \in 1..Len(fetches) : weekday(fetches[i]) < 5
    /\ Len(fetches) = Cardinality(WeekdaysVisited)
    /\ visited = [ i \in 1..Len(visited) |-> start_date + (i - 1) ]
    /\ cur = start_date + Len(visited)

\* C10 as stated: the counters, and for every start and end date the loop
\* ends with cur = end_date + 1.
C10_EndsDayAfterEnd ==
    /\ LoopCounters
    /\ cur > end_date =>
         /\ cur = end_date + 1
         /\ total_ok + total_fail = Cardinality(WeekdaysOfRange)

\* C10: at every iteration boundary total_ok + total_fail is the number of
\* weekdays visited, total_ok the number of tables collected, no weekend
\* day is fetched, the days are visited once each in ascending order; the
\* loop ends with cur = end_date + 1 when start_date <= end_date + 1 and
\* with cur = start_date otherwise, every weekday of the range counted once.
C10_LoopInvariant ==
    /\ LoopCounters
    /\ cur > end_date =>
         /\ cur = IF start_date <= end_date + 1 THEN end_date + 1 ELSE start_date
         /\ total_ok + total_fail = Cardinality(WeekdaysOfRange)

\* A run from Friday to Tuesday is over: three weekdays, two weekend days.
C10_Witness ==
    /\ cur > end_date
    /\ start_date = UDIFF_START_DATE - 3 /\ end_date = UDIFF_START_DATE + 1
    /\ Len(visited) = 5 /\ Len(fetches) = 3
    /\ total_ok = 1 /\ total_fail = 2

\* ------------------------------------------------ properties of the writer
\* The calendar year of the dates from 2023 to 2026, by their ordinals.
CalendarYear(d) ==
    IF d < 738886 THEN 2023
    ELSE IF d < 739252 THEN 2024
    ELSE IF d < 739617 THEN 2025
    ELSE 2026

RowYear(row) == CalendarYear(row[ColIdx(filtered, "Date")].n)

\* Row a does not come after row b in (Date, Symbol) order.
InOrder(a, b) ==
    LET da == a[ColIdx(filtered, "Date")].n   db == b[ColIdx(filtered, "Date")].n
        sa == a[ColIdx(filtered, "Symbol")].s sb == b[ColIdx(filtered, "Symbol")].s
    IN  da < db \/ (da = db /\ ~StrLess(sb, sa))

\* C8: save_excel_by_year writes one group per distinct year of Date, every
\* row of the input in exactly one group, that of its year, and each group
\* in ascending (Date, Symbol) order.
C8_YearPartition ==
    pc = "saved" =>
        /\ Len(sheets) = Cardinality({ RowYear(filtered.rows[r]) : r \in 1..Len(filtered.rows) })
        /\ \A i, j \in 1..Len(sheets) : sheets[i].year = sheets[j].year => i = j
        /\ \A r \in 1..Len(filtered.rows) :
             /\ Cardinality({ p \in { <<i, k>> : i \in 1..Len(sheets), k \in 1..MaxSaveRows } :
                                /\ p[2] <= Len(sheets[p[1]].rows)
                                /\ sheets[p[1]].rows[p[2]] = filtered.rows[r] }) = 1
             /\ \E i \in 1..Len(sheets) :
                  /\ sheets[i].year = RowYear(filtered.rows[r])
                  /\ \E k \in 1..Len(sheets[i].rows) : sheets[i].rows[k] = filtered.rows[r]
        /\ \A i \in 1..Len(sheets) :
             /\ \A k \in 1..Len(sheets[i].rows) :
                  \E r \in 1..Len(filtered.rows) : sheets[i].rows[k] = filtered.rows[r]
             /\ \A k, l \in 1..Len(sheets[i].rows) :
                  k < l => InOrder(sheets[i].rows[k], sheets[i].rows[l])

\* Three rows of three years, handed over latest first, make three groups.
C8_Witness ==
    /\ pc = "saved"
    /\ Len(filtered.rows) = 3
    /\ filtered.rows[1][1] = DateV(739252)
    /\ filtered.rows[2][1] = DateV(738886)
    /\ filtered.rows[3][1] = DateV(738883)
    /\ Len(sheets) = 3
    /\ sheets[1].year = 2023 /\ sheets[2].year = 2024 /\ sheets[3].year = 2025
====
